---------------------------- MODULE Spec2Model ----------------------------
(***************************************************************************)
(* Model of the statistics mirroring script (src/src/index.js).            *)
(*                                                                         *)
(* Text (HTML, URLs, file names) is a sequence of tokens.  A token is      *)
(* either one separator character ("/", "_", "#") or a word that stands    *)
(* for a run of characters that contains no separator and shares no        *)
(* character run with another word:                                        *)
(*   "H"         the origin of the statistics host, "https://stat...no"    *)
(*   "E"         the origin of a foreign host, "http://www.awstats.org"    *)
(*   "1","2"     the date code of a seed entry, one directory segment of   *)
(*               its URL                                                   *)
(*   "awstats."  the prefix of a report page file name                     *)
(*   ".html"     the suffix of a report page file name                     *)
(*   "resources" the name of the resource directory                        *)
(*   ".."        the parent directory segment                              *)
(*   "a","i"     names of resources and directories                        *)
(*   "c","l"     the stylesheet and the logo of the overview page          *)
(*   "x","s","t","u","e" names of report pages                             *)
(*   ".png"      the extension of a resource file name                     *)
(*   "<link", "<script", "<img", "<style", "<a", ">" markup around a       *)
(*               reference                                                 *)
(* A query string is spelled out: "?" followed by one token per character. *)
(***************************************************************************)
EXTENDS Integers, Sequences, FiniteSets, TLC

(***************************************************************************)
(* Bounds of the model.                                                    *)
(***************************************************************************)
NumSeeds == 2
MaxRuns == 2
MaxFailures == 1
MaxElements == 3
MaxQueryLen == 6

(***************************************************************************)
(* Text helpers.                                                           *)
(***************************************************************************)
Origins == {"H", "E"}

StartsWith(s, p) == Len(s) >= Len(p) /\ SubSeq(s, 1, Len(p)) = p

EndsWith(s, p) == Len(s) >= Len(p) /\ SubSeq(s, Len(s) - Len(p) + 1, Len(s)) = p

Drop(s, n) == SubSeq(s, n + 1, Len(s))

\* String.prototype.replace with a global regular expression built from the
\* escaped text k: every leftmost non-overlapping occurrence of k becomes v.
RECURSIVE ReplaceAll(_, _, _)
ReplaceAll(s, k, v) ==
  IF Len(s) < Len(k) THEN s
  ELSE IF StartsWith(s, k) THEN v \o ReplaceAll(Drop(s, Len(k)), k, v)
  ELSE <<Head(s)>> \o ReplaceAll(Tail(s), k, v)

\* The segments of a path: the runs of tokens between "/" tokens.
RECURSIVE SplitSlash(_)
SplitSlash(s) ==
  IF \A i \in 1..Len(s) : s[i] # "/" THEN <<s>>
  ELSE LET i == CHOOSE j \in 1..Len(s) : s[j] = "/" /\ \A k \in 1..(j - 1) : s[k] # "/"
       IN  <<SubSeq(s, 1, i - 1)>> \o SplitSlash(Drop(s, i))

RECURSIVE JoinSlash(_)
JoinSlash(segs) ==
  IF Len(segs) = 0 THEN <<>>
  ELSE IF Len(segs) = 1 THEN segs[1]
  ELSE segs[1] \o <<"/">> \o JoinSlash(Tail(segs))

\* Lexical normalisation of a list of segments: empty segments are dropped
\* and a ".." segment removes the segment before it (or stays, when there is
\* none and keepDots holds, as path.join does for a relative path).
RECURSIVE NormSegs(_, _, _)
NormSegs(segs, acc, keepDots) ==
  IF Len(segs) = 0 THEN acc
  ELSE LET sg == Head(segs) IN
       IF sg = <<>> THEN NormSegs(Tail(segs), acc, keepDots)
       ELSE IF sg = <<"..">> THEN
              IF Len(acc) > 0 /\ acc[Len(acc)] # <<"..">>
                THEN NormSegs(Tail(segs), SubSeq(acc, 1, Len(acc) - 1), keepDots)
              ELSE IF keepDots THEN NormSegs(Tail(segs), Append(acc, sg), keepDots)
              ELSE NormSegs(Tail(segs), acc, keepDots)
       ELSE NormSegs(Tail(segs), Append(acc, sg), keepDots)

\* path.join(dir, name): dir is a list of segments, name is text.
PathJoin(dir, name) == NormSegs(dir \o SplitSlash(name), <<>>, TRUE)

\* path.basename of a URL pathname: its last segment.
Basename(pathname) ==
  LET segs == SplitSlash(pathname) IN segs[Len(segs)]

(***************************************************************************)
(* URLs.  An absolute URL is an origin token followed by its pathname,     *)
(* which starts with "/".                                                  *)
(***************************************************************************)
UrlOrigin(url) == url[1]

\* The text before the first "?" and the text from the first "?" on.
QueryAt(text) ==
  IF \E i \in 1..Len(text) : text[i] = "?"
    THEN CHOOSE i \in 1..Len(text) : text[i] = "?" /\ \A k \in 1..(i - 1) : text[k] # "?"
  ELSE Len(text) + 1

PathPart(text) == SubSeq(text, 1, QueryAt(text) - 1)

QueryPart(text) == Drop(text, QueryAt(text) - 1)

UrlPathname(url) == Tail(PathPart(url))

\* URL.search: the query with its "?", empty when nothing follows the "?".
UrlSearch(url) == IF Len(QueryPart(url)) <= 1 THEN <<>> ELSE QueryPart(url)

\* new URL(text).href for absolute text: dot segments of the pathname are
\* removed, the query is kept.
UrlParse(text) ==
  LET raw == SplitSlash(Tail(PathPart(text)))
      segs == NormSegs(raw, <<>>, FALSE)
      trail == IF Len(raw) > 0 /\ raw[Len(raw)] \in {<<>>, <<"..">>} /\ Len(segs) > 0
                 THEN <<"/">> ELSE <<>>
  IN  <<text[1], "/">> \o JoinSlash(segs) \o trail \o QueryPart(text)

\* new URL(ref, base).href for a reference with a path and without fragment:
\* an absolute reference keeps its origin, a reference that starts with "/"
\* replaces the pathname of base, any other reference replaces the last
\* segment of base; dot segments are removed and the query of base is dropped.
ResolveUrl(ref, base) ==
  LET b == UrlParse(base)
      baseSegs == SplitSlash(UrlPathname(b))
  IN  IF ref[1] \in Origins THEN UrlParse(ref)
      ELSE IF ref[1] = "/" THEN UrlParse(<<UrlOrigin(b)>> \o ref)
      ELSE UrlParse(<<UrlOrigin(b), "/">>
                      \o JoinSlash(SubSeq(baseSegs, 1, Len(baseSegs) - 1))
                      \o <<"/">> \o ref)

(***************************************************************************)
(* HTML.  A document is text; an element is a tag token, the text of its   *)
(* reference attribute, and ">".  cheerio.load and the selectors of the    *)
(* script see the elements of the text in document order.                  *)
(***************************************************************************)
TagTokens == {"<link", "<script", "<img", "<style", "<a"}

RECURSIVE ParseHtml(_)
ParseHtml(html) ==
  IF Len(html) = 0 THEN <<>>
  ELSE IF Head(html) \in TagTokens /\ \E j \in 2..Len(html) : html[j] = ">"
    THEN LET j == CHOOSE i \in 2..Len(html) :
                    html[i] = ">" /\ \A k \in 2..(i - 1) : html[k] # ">"
         IN  <<[tag |-> Head(html), ref |-> SubSeq(html, 2, j - 1)]>>
               \o ParseHtml(Drop(html, j))
  ELSE ParseHtml(Tail(html))

\* new URL(ref, base) throws for a reference that is a scheme without a host.
InvalidUrl(ref) == ref = <<"http://">>

\* The resources one selector of extractResources adds, in document order.
RECURSIVE SelectResources(_, _, _, _)
SelectResources(els, tag, type, baseUrl) ==
  IF Len(els) = 0 THEN <<>>
  ELSE LET el == Head(els)
           rest == SelectResources(Tail(els), tag, type, baseUrl)
       IN  IF el.tag = tag /\ Len(el.ref) > 0 /\ ~InvalidUrl(el.ref)
             THEN <<[type |-> type, url |-> ResolveUrl(el.ref, baseUrl),
                     original |-> el.ref]>> \o rest
           ELSE rest

\* extractResources: the Set holds a fresh object per reference, so every
\* add inserts; Array.from returns them in insertion order.
extractResources(html, baseUrl) ==
  LET els == ParseHtml(html)
  IN  SelectResources(els, "<link", "css", baseUrl)
        \o SelectResources(els, "<script", "js", baseUrl)
        \o SelectResources(els, "<img", "image", baseUrl)
        \o SelectResources(els, "<style", "image", baseUrl)

RECURSIVE SlashToUnderscore(_)
SlashToUnderscore(s) ==
  IF Len(s) = 0 THEN <<>>
  ELSE <<IF Head(s) = "/" THEN "_" ELSE Head(s)>> \o SlashToUnderscore(Tail(s))

\* The character code of a character of a query string.
CharCode(c) ==
  CASE c = "?" -> 63
    [] c = "=" -> 61
    [] c = "1" -> 49
    [] c = "2" -> 50
    [] c = "v" -> 118

Base64Alphabet ==
  <<"A", "B", "C", "D", "E", "F", "G", "H", "I", "J", "K", "L", "M", "N", "O", "P",
    "Q", "R", "S", "T", "U", "V", "W", "X", "Y", "Z", "a", "b", "c", "d", "e", "f",
    "g", "h", "i", "j", "k", "l", "m", "n", "o", "p", "q", "r", "s", "t", "u", "v",
    "w", "x", "y", "z", "0", "1", "2", "3", "4", "5", "6", "7", "8", "9", "+", "/">>

Base64Char(n) == Base64Alphabet[n + 1]

\* Buffer.from(text).toString('base64') of a list of character codes: three
\* bytes become four characters, the last group is padded with "=".
RECURSIVE Base64(_)
Base64(bytes) ==
  IF Len(bytes) = 0 THEN <<>>
  ELSE IF Len(bytes) = 1
    THEN <<Base64Char(bytes[1] \div 4), Base64Char((bytes[1] % 4) * 16), "=", "=">>
  ELSE IF Len(bytes) = 2
    THEN <<Base64Char(bytes[1] \div 4),
           Base64Char((bytes[1] % 4) * 16 + bytes[2] \div 16),
           Base64Char((bytes[2] % 16) * 4), "=">>
  ELSE <<Base64Char(bytes[1] \div 4),
         Base64Char((bytes[1] % 4) * 16 + bytes[2] \div 16),
         Base64Char((bytes[2] % 16) * 4 + bytes[3] \div 64),
         Base64Char(bytes[3] % 64)>> \o Base64(Drop(bytes, 3))

\* Line 162: the first 8 characters of the base64 text of the query.
QueryHash(search) ==
  LET text == Base64([i \in 1..Len(search) |-> CharCode(search[i])])
  IN  SubSeq(text, 1, IF Len(text) < 8 THEN Len(text) ELSE 8)

ExtTokens == {".html", ".png"}

\* path.extname of a name without "/": the extension word that ends the name,
\* unless the name is that word alone.
ExtName(name) ==
  IF Len(name) > 1 /\ name[Len(name)] \in ExtTokens THEN <<name[Len(name)]>> ELSE <<>>

urlToFilename(url) ==
  LET pathname == UrlPathname(url)
      stripped == IF StartsWith(pathname, <<"/">>) THEN Tail(pathname) ELSE pathname
      flat == SlashToUnderscore(stripped)
      ext == ExtName(flat)
      base == SubSeq(flat, 1, Len(flat) - Len(ext))
      named == IF Len(UrlSearch(url)) > 0
                 THEN base \o <<"_">> \o QueryHash(UrlSearch(url)) \o ext
               ELSE flat
  IN  IF Len(named) = 0 THEN <<"index.html">> ELSE named

\* A resourceMap is the list of the object's [key, val] entries in insertion
\* order; assigning an existing key keeps its place.
MapHas(map, key) == \E i \in 1..Len(map) : map[i].key = key

MapGet(map, key) == map[CHOOSE i \in 1..Len(map) : map[i].key = key].val

MapSet(map, key, val) ==
  IF MapHas(map, key)
    THEN [i \in 1..Len(map) |-> IF map[i].key = key THEN [key |-> key, val |-> val]
                                ELSE map[i]]
  ELSE Append(map, [key |-> key, val |-> val])

MapKeys(map) == {map[i].key : i \in 1..Len(map)}

RECURSIVE rewriteHtmlUrls(_, _)
rewriteHtmlUrls(html, resourceMap) ==
  IF Len(resourceMap) = 0 THEN html
  ELSE rewriteHtmlUrls(ReplaceAll(html, Head(resourceMap).key, Head(resourceMap).val),
                       Tail(resourceMap))

RECURSIVE Dedup(_, _)
Dedup(s, seen) ==
  IF Len(s) = 0 THEN <<>>
  ELSE IF Head(s) \in seen THEN Dedup(Tail(s), seen)
  ELSE <<Head(s)>> \o Dedup(Tail(s), seen \cup {Head(s)})

IsSubpageHref(href) ==
  /\ Len(href) > 0
  /\ ~StartsWith(href, <<"#">>)
  /\ ~(href[1] \in Origins \cup {"http://"})
  /\ StartsWith(href, <<"awstats.">>)
  /\ EndsWith(href, <<".html">>)

RECURSIVE SelectLinks(_)
SelectLinks(els) ==
  IF Len(els) = 0 THEN <<>>
  ELSE IF Head(els).tag = "<a" /\ IsSubpageHref(Head(els).ref)
    THEN <<Head(els).ref>> \o SelectLinks(Tail(els))
  ELSE SelectLinks(Tail(els))

\* Mutant of extractSubpageLinks: an array instead of a Set, every anchor
\* is returned.
extractSubpageLinksAll(html) == SelectLinks(ParseHtml(html))

\* The Set holds strings, so a repeated href is added once; Array.from
\* returns the hrefs in the order of their first occurrence.
extractSubpageLinks(html) == Dedup(SelectLinks(ParseHtml(html)), {})

(***************************************************************************)
(* The seed list, the output tree and the remote site.                     *)
(***************************************************************************)
\* parseStatisticsHtml: one domain with NumSeeds entries; entry i has the
\* date code i and the URL H/i/awstats.x.html.
Seed(i) ==
  [domain |-> <<"dom">>, dateCode |-> <<ToString(i)>>,
   url |-> <<"H", "/", ToString(i), "/", "awstats.", "x", ".html">>]

OUTPUT_DIR == << <<"output">> >>

PageDir(domain, dateCode) == PathJoin(PathJoin(OUTPUT_DIR, domain), dateCode)

Parent(path) == SubSeq(path, 1, Len(path) - 1)

Prefixes(path) == {SubSeq(path, 1, n) : n \in 1..Len(path)}

IsPrefix(d, path) == Len(d) <= Len(path) /\ SubSeq(path, 1, Len(d)) = d

El(tag, ref) == <<tag>> \o ref \o <<">">>

RootName == <<"awstats.", "x", ".html">>
SubS == <<"awstats.", "s", ".html">>
SubT == <<"awstats.", "t", ".html">>
SubU == <<"awstats.", "u", ".html">>
Traversal == <<"awstats.", "/", "..", "/", "..", "/", "e", ".html">>
TraversalRoot ==
  <<"awstats.", "/", "..", "/", "..", "/", "2", "/", "awstats.", "x", ".html">>
SubDirLink == <<"awstats.", "s", "/", "t", ".html">>

\* The documents the site may serve for a root page.
DocDup ==
  El("<img", <<"a">>) \o El("<img", <<"a">>) \o El("<a", SubS) \o <<"txt">>
    \o El("<a", SubT) \o El("<a", SubS) \o El("<a", RootName)
DocOverlap ==
  El("<img", <<"a">>) \o El("<link", <<"i", "/", "a">>) \o El("<a", <<"#", "top">>)
    \o El("<a", <<"E", "/">>)
DocHostile ==
  El("<a", RootName) \o El("<a", Traversal) \o El("<a", TraversalRoot)

RootDocs == {DocDup, DocOverlap, DocHostile}

DocS == El("<img", <<"a">>) \o El("<a", SubU) \o El("<a", RootName)
DocT == El("<img", <<"i", "/", "a">>) \o El("<img", <<"i", "_", "a">>)
DocOther == <<"txt">>

\* The document the site serves for a page URL, given the root document.
ServerDoc(url, root) ==
  LET name == Basename(UrlPathname(UrlParse(url)))
  IN  IF name = RootName THEN root
      ELSE IF name = SubS THEN DocS
      ELSE IF name = SubT THEN DocT
      ELSE DocOther

Modes == {"full", "subpages", "overview"}

VARIABLES
  run,            \* number of process runs started so far
  mode,           \* the mode flag of the current run
  pc,             \* position of main
  exitCode,       \* exit status of the last finished run, -1 while running
  rootDoc,        \* what the site serves for a root page during this run
  failures,       \* failed requests and kills so far (bounded by MaxFailures)
  disk,           \* file path -> content
  dirs,           \* the directories that exist
  seedIdx, processed, failed, totalSubpagesFetched, totalSubpagesFailed,
  dl,             \* the frame of downloadResourcesAndSave
  sp,             \* the frame of fetchSubpages
  ov,             \* the frame of fetchOverview
  resStat,        \* history: <<pageDir, url>> -> requests, successes, writes
  inv,            \* history of the current downloadResourcesAndSave call
  saved,          \* history: the downloadResourcesAndSave call that just ended
  tables,         \* history: page path -> the table of the call that first downloaded
  iter,           \* history of the current seed entry
  hist,           \* history of the current run
  pace,           \* history: the last two requests and the delays after them
  crawl,          \* history of the current fetchSubpages loop
  crash,          \* history: the resource file a killed run left truncated
  fx              \* input and result of a function applied on its own

vars ==
  <<run, mode, pc, exitCode, rootDoc, failures, disk, dirs, seedIdx, processed,
    failed, totalSubpagesFetched, totalSubpagesFailed, dl, sp, ov, resStat, inv,
    saved, tables, iter, hist, pace, crawl, crash, fx>>

NoFrame == [active |-> FALSE]
NoSaved == [valid |-> FALSE]
NoIter == [seed |-> 0]
NoHist == [visited |-> {}, failedSeeds |-> {}, resFails |-> 0, pageFails |-> 0,
           subFails |-> 0, pageReqs |-> 0, rootReqs |-> 0, roots |-> <<>>]
NoPace == [last |-> "none", slept |-> FALSE, prev |-> "none", prevSlept |-> FALSE]
NoCrawl == [seed |-> 0, links |-> <<>>, existing |-> {}, reqs |-> <<>>]
NoCrash == [run |-> 0, path |-> <<>>, stat |-> <<>>]
NoFx == [kind |-> "none"]

pathExists(path) == path \in DOMAIN disk \/ path \in dirs

ensureDir(path) == dirs \cup Prefixes(path)

\* fs.writeFile succeeds when the directory of the file exists.
CanWrite(path) == Len(path) > 0 /\ Parent(path) \in dirs /\ path \notin dirs

writeFile(path, content) == (path :> content) @@ disk

CurSeed == Seed(seedIdx)
CurPageDir == PageDir(CurSeed.domain, CurSeed.dateCode)

MainHtmlFilename(url) ==
  LET name == Basename(UrlPathname(UrlParse(url)))
  IN  IF Len(name) = 0 THEN <<"index.html">> ELSE name

\* The root page files of the seed entries (empty text for a missing file).
RootFileOf(i) ==
  PathJoin(PageDir(Seed(i).domain, Seed(i).dateCode), MainHtmlFilename(Seed(i).url))

RootFiles(files) ==
  [i \in 1..NumSeeds |-> IF RootFileOf(i) \in DOMAIN files THEN files[RootFileOf(i)]
                         ELSE <<>>]

\* 1 when the URL the request is sent to is the URL of a seed entry.
RootRequest(url) ==
  IF \E i \in 1..NumSeeds : UrlParse(url) = Seed(i).url THEN 1 ELSE 0

\* Nothing has run yet: the output tree is empty.
Idle ==
  /\ run = 0
  /\ mode = "full"
  /\ pc = "done"
  /\ exitCode = -1
  /\ failures = 0
  /\ disk = <<>>
  /\ dirs = {}
  /\ seedIdx = 0
  /\ processed = 0
  /\ failed = 0
  /\ totalSubpagesFetched = 0
  /\ totalSubpagesFailed = 0
  /\ dl = NoFrame
  /\ sp = NoFrame
  /\ ov = NoFrame
  /\ resStat = <<>>
  /\ inv = NoFrame
  /\ saved = NoSaved
  /\ tables = <<>>
  /\ iter = NoIter
  /\ hist = NoHist
  /\ pace = NoPace
  /\ crawl = NoCrawl
  /\ crash = NoCrash

Init ==
  /\ Idle
  /\ rootDoc \in RootDocs
  /\ fx = NoFx

(***************************************************************************)
(* History bookkeeping (not program state).                                *)
(***************************************************************************)
\* A request is sent: the request before it and whether a delay followed
\* that one are kept.
Request(p, kind) ==
  [last |-> kind, slept |-> FALSE, prev |-> p.last, prevSlept |-> p.slept]

\* A setTimeout delay elapses.
Delay(p) == [p EXCEPT !.slept = TRUE]

Bump(counts, key) ==
  (key :> (IF key \in DOMAIN counts THEN counts[key] + 1 ELSE 1)) @@ counts

NoStat == [req |-> 0, ok |-> 0, wr |-> 0]

StatOf(stat, key) == IF key \in DOMAIN stat THEN stat[key] ELSE NoStat

Count(stat, key, req, ok, wr) ==
  LET o == StatOf(stat, key)
  IN  (key :> [req |-> o.req + req, ok |-> o.ok + ok, wr |-> o.wr + wr]) @@ stat

(***************************************************************************)
(* downloadResourcesAndSave                                                *)
(***************************************************************************)
LocalPath(resource) == <<"resources", "/">> \o urlToFilename(resource.url)

FullPath(pageDir, resource) == PathJoin(pageDir, LocalPath(resource))

ResourceDir(pageDir) == PathJoin(pageDir, <<"resources">>)

\* The frame at the top of the resource loop: resourceDir was ensured and
\* the resources were extracted.
EnterDownload(html, pageUrl, pageDir, htmlFilename, caller) ==
  [active |-> TRUE, html |-> html, pageUrl |-> pageUrl, pageDir |-> pageDir,
   htmlFilename |-> htmlFilename, resources |-> extractResources(html, pageUrl),
   idx |-> 1, resourceMap |-> <<>>, caller |-> caller]

EnterInv(frame, files, folders) ==
  [active |-> TRUE,
   allPresent |-> \A i \in 1..Len(frame.resources) :
                    LET path == FullPath(frame.pageDir, frame.resources[i])
                    IN  path \in files \/ path \in folders,
   req |-> 0, wr |-> 0, outcome |-> <<>>]

\* resourceMap[resource.original] = localPath; resourceMap[resource.url] = localPath
Record(map, resource) ==
  MapSet(MapSet(map, resource.original, LocalPath(resource)),
         resource.url, LocalPath(resource))

\* Mutant of ResourceOnDisk: a file that holds the bytes of another URL does
\* not count as present, so the later URL is fetched and overwrites it.
ResourceOnDiskSameUrl(pageDir, resource) ==
  /\ pathExists(FullPath(pageDir, resource))
  /\ FullPath(pageDir, resource) \in DOMAIN disk =>
       disk[FullPath(pageDir, resource)] = resource.url

\* Mutant of ResourceOnDisk: the content is validated, a truncated file does
\* not count as present.
ResourceOnDiskValid(pageDir, resource) ==
  /\ pathExists(FullPath(pageDir, resource))
  /\ FullPath(pageDir, resource) \in DOMAIN disk =>
       disk[FullPath(pageDir, resource)] # <<"truncated">>

\* Mutant of ResourceOnDisk: the existence check is lost.
ResourceOnDiskNever(pageDir, resource) == FALSE

\* Line 229: await fs.pathExists(fullPath)
ResourceOnDisk(pageDir, resource) == pathExists(FullPath(pageDir, resource))

InResourceLoop == pc = "res" /\ dl.idx <= Len(dl.resources)

CurResource == dl.resources[dl.idx]

\* Mutant of ResourceSkip: the file is found but the mapping is not recorded.
ResourceSkipNoRecord ==
  /\ InResourceLoop
  /\ ResourceOnDisk(dl.pageDir, CurResource)
  /\ dl' = [dl EXCEPT !.idx = @ + 1]
  /\ inv' = [inv EXCEPT !.outcome = Append(@, "skip")]
  /\ saved' = NoSaved
  /\ UNCHANGED <<run, mode, pc, exitCode, rootDoc, failures, disk, dirs, seedIdx,
                 processed, failed, totalSubpagesFetched, totalSubpagesFailed, sp,
                 resStat, iter, hist>>
  /\ UNCHANGED <<ov, tables>>
  /\ UNCHANGED <<pace, crawl, crash, fx>>

\* The resource is already on disk: record the mapping, no request.
ResourceSkip ==
  /\ InResourceLoop
  /\ ResourceOnDisk(dl.pageDir, CurResource)
  /\ dl' = [dl EXCEPT !.resourceMap = Record(@, CurResource), !.idx = @ + 1]
  /\ inv' = [inv EXCEPT !.outcome = Append(@, "skip")]
  /\ saved' = NoSaved
  /\ UNCHANGED <<run, mode, pc, exitCode, rootDoc, failures, disk, dirs, seedIdx,
                 processed, failed, totalSubpagesFetched, totalSubpagesFailed, sp,
                 resStat, iter, hist>>
  /\ UNCHANGED <<ov, tables>>
  /\ UNCHANGED <<pace, crawl, crash, fx>>

\* The request succeeds: write the bytes (identified by the URL they came
\* from) and record the mapping; a failing write is caught like a failing
\* request.
ResourceFetchOk ==
  /\ InResourceLoop
  /\ ~ResourceOnDisk(dl.pageDir, CurResource)
  /\ LET path == FullPath(dl.pageDir, CurResource)
         key == <<dl.pageDir, CurResource.url>>
     IN  IF CanWrite(path)
           THEN /\ disk' = writeFile(path, CurResource.url)
                /\ dl' = [dl EXCEPT !.resourceMap = Record(@, CurResource),
                                    !.idx = @ + 1]
                /\ resStat' = Count(resStat, key, 1, 1, 1)
                /\ inv' = [inv EXCEPT !.req = @ + 1, !.wr = @ + 1,
                                      !.outcome = Append(@, "ok")]
         ELSE /\ disk' = disk
              /\ dl' = [dl EXCEPT !.idx = @ + 1]
              /\ resStat' = Count(resStat, key, 1, 1, 0)
              /\ inv' = [inv EXCEPT !.req = @ + 1, !.outcome = Append(@, "fail")]
  /\ saved' = NoSaved
  /\ UNCHANGED <<run, mode, pc, exitCode, rootDoc, failures, dirs, seedIdx,
                 processed, failed, totalSubpagesFetched, totalSubpagesFailed, sp,
                 iter, hist>>
  /\ UNCHANGED <<ov, tables>>
  /\ pace' = Request(pace, "res")
  /\ UNCHANGED <<crawl, crash, fx>>

\* What a file holds when the process stopped before its write was complete.
Truncated == <<"truncated">>

\* The process is killed between the existence check and the end of the
\* write at line 237: the request was answered, and a truncated file is left
\* at the mapped path.  At most one run is killed, and not the last one; the
\* kill counts as a failure for the bound on failures.
Crash ==
  /\ InResourceLoop
  /\ ~ResourceOnDisk(dl.pageDir, CurResource)
  /\ CanWrite(FullPath(dl.pageDir, CurResource))
  /\ crash.run = 0
  /\ run < MaxRuns
  /\ failures < MaxFailures
  /\ failures' = failures + 1
  /\ disk' = writeFile(FullPath(dl.pageDir, CurResource), Truncated)
  /\ resStat' = Count(resStat, <<dl.pageDir, CurResource.url>>, 1, 1, 0)
  /\ crash' = [run |-> run, path |-> FullPath(dl.pageDir, CurResource),
               stat |-> [key \in {k \in DOMAIN resStat' :
                                    FullPath(k[1], [url |-> k[2]])
                                      = FullPath(dl.pageDir, CurResource)}
                           |-> resStat'[key]]]
  /\ pc' = "done"
  /\ exitCode' = -1
  /\ dl' = NoFrame
  /\ sp' = NoFrame
  /\ inv' = NoFrame
  /\ saved' = NoSaved
  /\ pace' = Request(pace, "res")
  /\ UNCHANGED <<run, mode, rootDoc, dirs, seedIdx, processed, failed,
                 totalSubpagesFetched, totalSubpagesFailed, ov, tables, iter, hist,
                 crawl, fx>>

\* Mutant of ResourceFetchFail: the failure ends the resource loop.
ResourceFetchFailAborts ==
  /\ InResourceLoop
  /\ ~ResourceOnDisk(dl.pageDir, CurResource)
  /\ failures < MaxFailures
  /\ failures' = failures + 1
  /\ dl' = [dl EXCEPT !.idx = Len(dl.resources) + 1]
  /\ resStat' = Count(resStat, <<dl.pageDir, CurResource.url>>, 1, 0, 0)
  /\ inv' = [inv EXCEPT !.req = @ + 1, !.outcome = Append(@, "fail")]
  /\ hist' = [hist EXCEPT !.resFails = @ + 1]
  /\ saved' = NoSaved
  /\ UNCHANGED <<run, mode, pc, exitCode, rootDoc, disk, dirs, seedIdx, processed,
                 failed, totalSubpagesFetched, totalSubpagesFailed, sp, iter>>
  /\ UNCHANGED <<ov, tables>>
  /\ pace' = Request(pace, "res")
  /\ UNCHANGED <<crawl, crash, fx>>

\* Mutant of ResourceFetchFail: the failure is added to the failed count.
ResourceFetchFailCounted ==
  /\ InResourceLoop
  /\ ~ResourceOnDisk(dl.pageDir, CurResource)
  /\ failures < MaxFailures
  /\ failures' = failures + 1
  /\ failed' = failed + 1
  /\ dl' = [dl EXCEPT !.idx = @ + 1]
  /\ resStat' = Count(resStat, <<dl.pageDir, CurResource.url>>, 1, 0, 0)
  /\ inv' = [inv EXCEPT !.req = @ + 1, !.outcome = Append(@, "fail")]
  /\ hist' = [hist EXCEPT !.resFails = @ + 1]
  /\ saved' = NoSaved
  /\ UNCHANGED <<run, mode, pc, exitCode, rootDoc, disk, dirs, seedIdx, processed,
                 totalSubpagesFetched, totalSubpagesFailed, sp, iter>>
  /\ UNCHANGED <<ov, tables>>
  /\ pace' = Request(pace, "res")
  /\ UNCHANGED <<crawl, crash, fx>>

\* The request fails: logged, nothing recorded, the loop goes on.
ResourceFetchFail ==
  /\ InResourceLoop
  /\ ~ResourceOnDisk(dl.pageDir, CurResource)
  /\ failures < MaxFailures
  /\ failures' = failures + 1
  /\ dl' = [dl EXCEPT !.idx = @ + 1]
  /\ resStat' = Count(resStat, <<dl.pageDir, CurResource.url>>, 1, 0, 0)
  /\ inv' = [inv EXCEPT !.req = @ + 1, !.outcome = Append(@, "fail")]
  /\ hist' = [hist EXCEPT !.resFails = @ + 1]
  /\ saved' = NoSaved
  /\ UNCHANGED <<run, mode, pc, exitCode, rootDoc, disk, dirs, seedIdx, processed,
                 failed, totalSubpagesFetched, totalSubpagesFailed, sp, iter>>
  /\ UNCHANGED <<ov, tables>>
  /\ pace' = Request(pace, "res")
  /\ UNCHANGED <<crawl, crash, fx>>

\* History: the table of the first call for a page that requested a resource
\* and recorded every resource of the page.
NoteTable(tabs, frame, history) ==
  LET path == PathJoin(frame.pageDir, frame.htmlFilename)
  IN  IF /\ path \notin DOMAIN tabs
         /\ history.req > 0
         /\ \A i \in 1..Len(history.outcome) : history.outcome[i] # "fail"
        THEN (path :> [resources |-> frame.resources,
                       resourceMap |-> frame.resourceMap]) @@ tabs
      ELSE tabs

AfterResourceLoop == pc = "res" /\ dl.idx > Len(dl.resources)

SavedOf(frame, history, out, path, written) ==
  [valid |-> TRUE, html |-> frame.html, resources |-> frame.resources,
   resourceMap |-> frame.resourceMap, out |-> out, path |-> path,
   pageDir |-> frame.pageDir, written |-> written, caller |-> frame.caller,
   allPresent |-> history.allPresent, req |-> history.req, wr |-> history.wr,
   outcome |-> history.outcome]

\* Mutant of SavePageOk: the links of a saved sub-page join the list of the
\* crawl.
SavePageOkRediscover ==
  /\ AfterResourceLoop
  /\ LET out == rewriteHtmlUrls(dl.html, dl.resourceMap)
         path == PathJoin(dl.pageDir, dl.htmlFilename)
     IN  /\ CanWrite(path)
         /\ disk' = writeFile(path, out)
         /\ saved' = SavedOf(dl, inv, out, path, TRUE)
  /\ IF dl.caller = "page"
       THEN /\ pc' = "subs"
            /\ sp' = sp
            /\ iter' = [iter EXCEPT !.written = TRUE]
     ELSE /\ pc' = "sub"
          /\ sp' = [sp EXCEPT !.subpagesFetched = @ + 1, !.idx = @ + 1,
                               !.filteredLinks =
                                 @ \o Dedup(extractSubpageLinks(dl.html),
                                            {@[i] : i \in 1..Len(@)}
                                              \cup {MainHtmlFilename(CurSeed.url)})]
          /\ iter' = iter
  /\ dl' = NoFrame
  /\ inv' = NoFrame
  /\ UNCHANGED <<run, mode, exitCode, rootDoc, failures, dirs, seedIdx, processed,
                 failed, totalSubpagesFetched, totalSubpagesFailed, resStat, hist>>
  /\ tables' = NoteTable(tables, dl, inv)
  /\ UNCHANGED ov
  /\ pace' = IF dl.caller = "sub" THEN Delay(pace) ELSE pace
  /\ UNCHANGED <<crawl, crash, fx>>

\* Lines 248-251: rewrite, write the page, return to the caller.
SavePageOk ==
  /\ AfterResourceLoop
  /\ LET out == rewriteHtmlUrls(dl.html, dl.resourceMap)
         path == PathJoin(dl.pageDir, dl.htmlFilename)
     IN  /\ CanWrite(path)
         /\ disk' = writeFile(path, out)
         /\ saved' = SavedOf(dl, inv, out, path, TRUE)
  /\ IF dl.caller = "page"
       THEN /\ pc' = "subs"
            /\ sp' = sp
            /\ iter' = [iter EXCEPT !.written = TRUE]
     ELSE /\ pc' = "sub"
          /\ sp' = [sp EXCEPT !.subpagesFetched = @ + 1, !.idx = @ + 1]
          /\ iter' = iter
  /\ dl' = NoFrame
  /\ inv' = NoFrame
  /\ UNCHANGED <<run, mode, exitCode, rootDoc, failures, dirs, seedIdx, processed,
                 failed, totalSubpagesFetched, totalSubpagesFailed, resStat, hist>>
  /\ tables' = NoteTable(tables, dl, inv)
  /\ UNCHANGED ov
  /\ pace' = IF dl.caller = "sub" THEN Delay(pace) ELSE pace
  /\ UNCHANGED <<crawl, crash, fx>>

\* The page write throws: the caller's catch block takes over (main for a
\* root page, the sub-page loop for a sub-page).
SavePageThrow ==
  /\ AfterResourceLoop
  /\ LET out == rewriteHtmlUrls(dl.html, dl.resourceMap)
         path == PathJoin(dl.pageDir, dl.htmlFilename)
     IN  /\ ~CanWrite(path)
         /\ saved' = SavedOf(dl, inv, out, path, FALSE)
  /\ IF dl.caller = "page"
       THEN /\ pc' = "seed"
            /\ failed' = failed + 1
            /\ seedIdx' = seedIdx + 1
            /\ sp' = sp
            /\ hist' = [hist EXCEPT !.pageFails = @ + 1,
                                    !.failedSeeds = @ \cup {seedIdx}]
     ELSE /\ pc' = "sub"
          /\ failed' = failed
          /\ seedIdx' = seedIdx
          /\ sp' = [sp EXCEPT !.subpagesFailed = @ + 1, !.idx = @ + 1]
          /\ hist' = [hist EXCEPT !.subFails = @ + 1]
  /\ dl' = NoFrame
  /\ inv' = NoFrame
  /\ UNCHANGED <<run, mode, exitCode, rootDoc, failures, disk, dirs, processed,
                 totalSubpagesFetched, totalSubpagesFailed, resStat, iter>>
  /\ tables' = NoteTable(tables, dl, inv)
  /\ UNCHANGED ov
  /\ pace' = IF dl.caller = "page" THEN Delay(pace) ELSE pace
  /\ UNCHANGED <<crawl, crash, fx>>

(***************************************************************************)
(* main: start of a run                                                    *)
(***************************************************************************)
\* A run whose cookies load: the counters are set up and the loop over the
\* seed entries begins, or, with --overview, fetchOverview is called.  The
\* site may serve another root document than during the run before.
StartRun ==
  /\ pc = "done"
  /\ run < MaxRuns
  /\ \E m \in Modes, doc \in RootDocs :
       /\ mode' = m
       /\ rootDoc' = IF m = "full" THEN doc ELSE rootDoc
       /\ (m # "full" => doc = rootDoc)
       /\ pc' = IF m = "overview" THEN "ov_live" ELSE "seed"
       /\ dirs' = IF m = "overview" THEN dirs ELSE ensureDir(OUTPUT_DIR)
  /\ run' = run + 1
  /\ exitCode' = -1
  /\ seedIdx' = 1
  /\ processed' = 0
  /\ failed' = 0
  /\ totalSubpagesFetched' = 0
  /\ totalSubpagesFailed' = 0
  /\ hist' = [NoHist EXCEPT !.roots = RootFiles(disk)]
  /\ iter' = NoIter
  /\ saved' = NoSaved
  /\ UNCHANGED <<failures, disk, dl, sp, resStat, inv>>
  /\ UNCHANGED <<ov, tables>>
  /\ pace' = NoPace
  /\ crawl' = NoCrawl
  /\ UNCHANGED <<crash, fx>>

\* loadCookies returns null: process.exit(1).
NoCookies ==
  /\ pc = "done"
  /\ run < MaxRuns
  /\ run' = run + 1
  /\ exitCode' = 1
  /\ hist' = NoHist
  /\ iter' = NoIter
  /\ saved' = NoSaved
  /\ UNCHANGED <<mode, pc, rootDoc, failures, disk, dirs, seedIdx, processed, failed,
                 totalSubpagesFetched, totalSubpagesFailed, dl, sp, resStat, inv>>
  /\ UNCHANGED <<ov, tables>>
  /\ UNCHANGED <<pace, crawl, crash, fx>>

AtEntry == pc = "seed" /\ seedIdx <= NumSeeds

RootPath == PathJoin(CurPageDir, MainHtmlFilename(CurSeed.url))

IterOf(requested) ==
  [seed |-> seedIdx, existed |-> pathExists(RootPath),
   before |-> IF RootPath \in DOMAIN disk THEN disk[RootPath] ELSE <<>>,
   requested |-> requested, written |-> FALSE,
   processed0 |-> processed, fetched0 |-> totalSubpagesFetched,
   failed0 |-> totalSubpagesFailed, pace0 |-> pace]

(***************************************************************************)
(* fetchPage                                                               *)
(***************************************************************************)
\* Mutant of FetchPageFail: the exception leaves the loop over the entries.
FetchPageFailAborts ==
  /\ AtEntry
  /\ mode = "full"
  /\ failures < MaxFailures
  /\ failures' = failures + 1
  /\ dirs' = ensureDir(CurPageDir)
  /\ pc' = "done"
  /\ exitCode' = 0
  /\ iter' = IterOf(TRUE)
  /\ hist' = [hist EXCEPT !.visited = @ \cup {seedIdx},
                          !.failedSeeds = @ \cup {seedIdx}, !.pageFails = @ + 1,
                          !.pageReqs = @ + 1, !.rootReqs = @ + 1]
  /\ saved' = NoSaved
  /\ UNCHANGED <<run, mode, rootDoc, disk, seedIdx, processed, failed,
                 totalSubpagesFetched, totalSubpagesFailed, dl, sp, resStat, inv>>
  /\ UNCHANGED <<ov, tables>>
  /\ pace' = Request(pace, "page")
  /\ UNCHANGED <<crawl, crash, fx>>

\* The request for the root page fails: fetchPage throws, main counts the
\* entry as failed and goes to the next entry.
FetchPageFail ==
  /\ AtEntry
  /\ mode = "full"
  /\ failures < MaxFailures
  /\ failures' = failures + 1
  /\ dirs' = ensureDir(CurPageDir)
  /\ failed' = failed + 1
  /\ seedIdx' = seedIdx + 1
  /\ iter' = IterOf(TRUE)
  /\ hist' = [hist EXCEPT !.visited = @ \cup {seedIdx},
                          !.failedSeeds = @ \cup {seedIdx}, !.pageFails = @ + 1,
                          !.pageReqs = @ + 1, !.rootReqs = @ + 1]
  /\ saved' = NoSaved
  /\ UNCHANGED <<run, mode, pc, exitCode, rootDoc, disk, processed,
                 totalSubpagesFetched, totalSubpagesFailed, dl, sp, resStat, inv>>
  /\ UNCHANGED <<ov, tables>>
  /\ pace' = Delay(Request(pace, "page"))
  /\ UNCHANGED <<crawl, crash, fx>>

\* Mutant of FetchPageOk: a root page whose file exists is not fetched again.
FetchPageOkUnlessExists ==
  /\ AtEntry
  /\ mode = "full"
  /\ IF pathExists(RootPath)
       THEN /\ pc' = "subs"
            /\ iter' = IterOf(FALSE)
            /\ hist' = [hist EXCEPT !.visited = @ \cup {seedIdx}]
            /\ UNCHANGED <<dl, inv, dirs>>
     ELSE /\ LET frame == EnterDownload(ServerDoc(CurSeed.url, rootDoc), CurSeed.url,
                                        CurPageDir, MainHtmlFilename(CurSeed.url),
                                        "page")
             IN  /\ dl' = frame
                 /\ inv' = EnterInv(frame, DOMAIN disk, dirs)
          /\ dirs' = ensureDir(ResourceDir(CurPageDir))
          /\ pc' = "res"
          /\ iter' = IterOf(TRUE)
          /\ hist' = [hist EXCEPT !.visited = @ \cup {seedIdx}, !.pageReqs = @ + 1,
                              !.rootReqs = @ + 1]
  /\ saved' = NoSaved
  /\ UNCHANGED <<run, mode, exitCode, rootDoc, failures, disk, seedIdx, processed,
                 failed, totalSubpagesFetched, totalSubpagesFailed, sp, resStat>>
  /\ UNCHANGED <<ov, tables>>
  /\ pace' = IF pathExists(RootPath) THEN pace ELSE Request(pace, "page")
  /\ UNCHANGED <<crawl, crash, fx>>

\* The request succeeds: downloadResourcesAndSave starts on the fetched text.
FetchPageOk ==
  /\ AtEntry
  /\ mode = "full"
  /\ LET frame == EnterDownload(ServerDoc(CurSeed.url, rootDoc), CurSeed.url,
                                CurPageDir, MainHtmlFilename(CurSeed.url), "page")
     IN  /\ dl' = frame
         /\ inv' = EnterInv(frame, DOMAIN disk, dirs)
  /\ dirs' = ensureDir(ResourceDir(CurPageDir))
  /\ pc' = "res"
  /\ iter' = IterOf(TRUE)
  /\ hist' = [hist EXCEPT !.visited = @ \cup {seedIdx}, !.pageReqs = @ + 1,
                              !.rootReqs = @ + 1]
  /\ saved' = NoSaved
  /\ UNCHANGED <<run, mode, exitCode, rootDoc, failures, disk, seedIdx, processed,
                 failed, totalSubpagesFetched, totalSubpagesFailed, sp, resStat>>
  /\ UNCHANGED <<ov, tables>>
  /\ pace' = Request(pace, "page")
  /\ UNCHANGED <<crawl, crash, fx>>

\* --subpages-only: fetchPage is not called.
SkipFetchPage ==
  /\ AtEntry
  /\ mode = "subpages"
  /\ pc' = "subs"
  /\ iter' = IterOf(FALSE)
  /\ hist' = [hist EXCEPT !.visited = @ \cup {seedIdx}]
  /\ saved' = NoSaved
  /\ UNCHANGED <<run, mode, exitCode, rootDoc, failures, disk, dirs, seedIdx,
                 processed, failed, totalSubpagesFetched, totalSubpagesFailed, dl, sp,
                 resStat, inv>>
  /\ UNCHANGED <<ov, tables>>
  /\ UNCHANGED <<pace, crawl, crash, fx>>

(***************************************************************************)
(* fetchSubpages                                                           *)
(***************************************************************************)
RECURSIVE Without(_, _)
Without(s, x) ==
  IF Len(s) = 0 THEN <<>>
  ELSE IF Head(s) = x THEN Without(Tail(s), x)
  ELSE <<Head(s)>> \o Without(Tail(s), x)

\* subpageLinks.filter((link) => link !== mainHtmlFilename)
FilteredLinks(html, mainHtmlFilename) ==
  Without(extractSubpageLinks(html), mainHtmlFilename)

\* url.substring(0, url.lastIndexOf('/') + 1)
BaseUrl(url) ==
  LET last == CHOOSE i \in 1..Len(url) :
                url[i] = "/" /\ \A k \in (i + 1)..Len(url) : url[k] # "/"
  IN  SubSeq(url, 1, last)

LinksOnDisk ==
  IF pathExists(RootPath)
    THEN FilteredLinks(disk[RootPath], MainHtmlFilename(CurSeed.url))
  ELSE <<>>

\* The saved root page is missing or links to no sub-page: fetchSubpages
\* returns (0, 0) and main counts the entry as processed.
SubpagesNone ==
  /\ pc = "subs"
  /\ Len(LinksOnDisk) = 0
  /\ processed' = processed + 1
  /\ seedIdx' = seedIdx + 1
  /\ pc' = "seed"
  /\ saved' = NoSaved
  /\ UNCHANGED <<run, mode, exitCode, rootDoc, failures, disk, dirs, failed,
                 totalSubpagesFetched, totalSubpagesFailed, dl, sp, resStat, inv,
                 iter, hist>>
  /\ UNCHANGED <<ov, tables>>
  /\ pace' = Delay(pace)
  /\ UNCHANGED <<crawl, crash, fx>>

SubpagesBegin ==
  /\ pc = "subs"
  /\ Len(LinksOnDisk) > 0
  /\ sp' = [active |-> TRUE, filteredLinks |-> LinksOnDisk, idx |-> 1,
            baseUrl |-> BaseUrl(CurSeed.url), subpagesFetched |-> 0,
            subpagesFailed |-> 0]
  /\ pc' = "sub"
  /\ saved' = NoSaved
  /\ UNCHANGED <<run, mode, exitCode, rootDoc, failures, disk, dirs, seedIdx,
                 processed, failed, totalSubpagesFetched, totalSubpagesFailed, dl,
                 resStat, inv, iter, hist>>
  /\ UNCHANGED <<ov, tables>>
  /\ crawl' = [seed |-> seedIdx, links |-> extractSubpageLinks(disk[RootPath]),
               existing |-> {LinksOnDisk[i] : i \in {j \in 1..Len(LinksOnDisk) :
                               pathExists(PathJoin(CurPageDir, LinksOnDisk[j]))}},
               reqs |-> <<>>]
  /\ UNCHANGED <<pace, crash, fx>>

InSubpageLoop == pc = "sub" /\ sp.idx <= Len(sp.filteredLinks)

SubpageFile == sp.filteredLinks[sp.idx]

SubpageUrl == sp.baseUrl \o SubpageFile

SubpagePath == PathJoin(CurPageDir, SubpageFile)

\* The sub-page file exists: counted as fetched, no request.
SubpageSkip ==
  /\ InSubpageLoop
  /\ pathExists(SubpagePath)
  /\ sp' = [sp EXCEPT !.subpagesFetched = @ + 1, !.idx = @ + 1]
  /\ saved' = NoSaved
  /\ UNCHANGED <<run, mode, pc, exitCode, rootDoc, failures, disk, dirs, seedIdx,
                 processed, failed, totalSubpagesFetched, totalSubpagesFailed, dl,
                 resStat, inv, iter, hist>>
  /\ UNCHANGED <<ov, tables>>
  /\ UNCHANGED <<pace, crawl, crash, fx>>

\* The request for the sub-page fails: counted, the loop goes on.
SubpageFetchFail ==
  /\ InSubpageLoop
  /\ ~pathExists(SubpagePath)
  /\ failures < MaxFailures
  /\ failures' = failures + 1
  /\ sp' = [sp EXCEPT !.subpagesFailed = @ + 1, !.idx = @ + 1]
  /\ hist' = [hist EXCEPT !.subFails = @ + 1, !.pageReqs = @ + 1,
                          !.rootReqs = @ + RootRequest(SubpageUrl)]
  /\ saved' = NoSaved
  /\ UNCHANGED <<run, mode, pc, exitCode, rootDoc, disk, dirs, seedIdx, processed,
                 failed, totalSubpagesFetched, totalSubpagesFailed, dl, resStat, inv,
                 iter>>
  /\ UNCHANGED <<ov, tables>>
  /\ pace' = Request(pace, "sub")
  /\ crawl' = [crawl EXCEPT !.reqs = Bump(@, SubpageFile)]
  /\ UNCHANGED <<crash, fx>>

\* The request succeeds: downloadResourcesAndSave starts on the sub-page.
SubpageFetchOk ==
  /\ InSubpageLoop
  /\ ~pathExists(SubpagePath)
  /\ LET frame == EnterDownload(ServerDoc(SubpageUrl, rootDoc), SubpageUrl,
                                CurPageDir, SubpageFile, "sub")
     IN  /\ dl' = frame
         /\ inv' = EnterInv(frame, DOMAIN disk, dirs)
  /\ dirs' = ensureDir(ResourceDir(CurPageDir))
  /\ pc' = "res"
  /\ hist' = [hist EXCEPT !.pageReqs = @ + 1,
                          !.rootReqs = @ + RootRequest(SubpageUrl)]
  /\ saved' = NoSaved
  /\ UNCHANGED <<run, mode, exitCode, rootDoc, failures, disk, seedIdx, processed,
                 failed, totalSubpagesFetched, totalSubpagesFailed, sp, resStat, iter>>
  /\ UNCHANGED <<ov, tables>>
  /\ pace' = Request(pace, "sub")
  /\ crawl' = [crawl EXCEPT !.reqs = Bump(@, SubpageFile)]
  /\ UNCHANGED <<crash, fx>>

\* The loop is over: fetchSubpages returns its counts, main adds them and
\* counts the entry as processed.
SubpagesReturn ==
  /\ pc = "sub"
  /\ sp.idx > Len(sp.filteredLinks)
  /\ totalSubpagesFetched' = totalSubpagesFetched + sp.subpagesFetched
  /\ totalSubpagesFailed' = totalSubpagesFailed + sp.subpagesFailed
  /\ processed' = processed + 1
  /\ seedIdx' = seedIdx + 1
  /\ pc' = "seed"
  /\ sp' = NoFrame
  /\ saved' = NoSaved
  /\ UNCHANGED <<run, mode, exitCode, rootDoc, failures, disk, dirs, failed, dl,
                 resStat, inv, iter, hist>>
  /\ UNCHANGED <<ov, tables>>
  /\ pace' = Delay(pace)
  /\ UNCHANGED <<crawl, crash, fx>>

(***************************************************************************)
(* fetchOverview                                                           *)
(***************************************************************************)
OverviewUrl == <<"H", "/">>
CssHref == <<"/", "c">>
LogoPath == <<"/", "l">>

OvLocalPath(ref) == <<"resources", "/">> \o urlToFilename(ResolveUrl(ref, OverviewUrl))

OvFullPath(ref) == PathJoin(OUTPUT_DIR, OvLocalPath(ref))

IndexPath == PathJoin(OUTPUT_DIR, <<"index.html">>)

\* The snapshot after the rewrites: the stylesheet link, the logo and one
\* link per seed entry, repointed to ./<folder>/<dateCode>/<filename>.
RECURSIVE OverviewLinks(_)
OverviewLinks(n) ==
  IF n = 0 THEN <<>>
  ELSE OverviewLinks(n - 1)
         \o El("<a", <<".", "/">> \o Seed(n).domain \o <<"/">> \o Seed(n).dateCode
                       \o <<"/">> \o MainHtmlFilename(Seed(n).url))

FinalHtml(frame) ==
  El("<link", IF frame.css THEN OvLocalPath(CssHref) ELSE CssHref)
    \o El("<img", IF frame.logo THEN OvLocalPath(LogoPath) ELSE LogoPath)
    \o OverviewLinks(NumSeeds)

OvUnchanged ==
  UNCHANGED <<run, mode, rootDoc, seedIdx, processed, failed, totalSubpagesFetched,
              totalSubpagesFailed, dl, sp, resStat, inv, tables, iter, hist, crawl,
              crash, fx>>

\* The request for the live overview page fails: fetchOverview throws, main
\* rejects and the rejection is printed.
OvLiveFail ==
  /\ pc = "ov_live"
  /\ failures < MaxFailures
  /\ failures' = failures + 1
  /\ pc' = "done"
  /\ exitCode' = 0
  /\ saved' = NoSaved
  /\ pace' = Request(pace, "ov")
  /\ UNCHANGED <<disk, dirs, ov>>
  /\ OvUnchanged

OvLiveOk ==
  /\ pc = "ov_live"
  /\ dirs' = ensureDir(PathJoin(OUTPUT_DIR, <<"resources">>))
  /\ ov' = [active |-> TRUE, css |-> FALSE, logo |-> FALSE]
  /\ pc' = "ov_css"
  /\ saved' = NoSaved
  /\ pace' = Request(pace, "ov")
  /\ UNCHANGED <<exitCode, failures, disk>>
  /\ OvUnchanged

\* Lines 398-416: the stylesheet is fetched unless it is on disk; the link is
\* repointed unless the request failed.
OvCss ==
  /\ pc = "ov_css"
  /\ \/ /\ pathExists(OvFullPath(CssHref))
        /\ ov' = [ov EXCEPT !.css = TRUE]
        /\ UNCHANGED <<disk, failures, pace>>
     \/ /\ ~pathExists(OvFullPath(CssHref))
        /\ disk' = writeFile(OvFullPath(CssHref), ResolveUrl(CssHref, OverviewUrl))
        /\ ov' = [ov EXCEPT !.css = TRUE]
        /\ pace' = Request(pace, "ov")
        /\ UNCHANGED failures
     \/ /\ ~pathExists(OvFullPath(CssHref))
        /\ failures < MaxFailures
        /\ failures' = failures + 1
        /\ pace' = Request(pace, "ov")
        /\ UNCHANGED <<disk, ov>>
  /\ pc' = "ov_js"
  /\ saved' = NoSaved
  /\ UNCHANGED <<exitCode, dirs>>
  /\ OvUnchanged

\* Lines 420-449: the script bundle is fetched and searched for the logo
\* path; the logo is fetched unless it is on disk.  logoLocalPath is set as
\* soon as the path is found.
OvLogo ==
  /\ pc = "ov_js"
  /\ \/ /\ failures < MaxFailures
        /\ failures' = failures + 1
        /\ pace' = Request(pace, "ov")
        /\ UNCHANGED <<disk, ov>>
     \/ /\ pace' = Request(pace, "ov")
        /\ UNCHANGED <<disk, ov, failures>>
     \/ /\ pathExists(OvFullPath(LogoPath))
        /\ ov' = [ov EXCEPT !.logo = TRUE]
        /\ pace' = Request(pace, "ov")
        /\ UNCHANGED <<disk, failures>>
     \/ /\ ~pathExists(OvFullPath(LogoPath))
        /\ disk' = writeFile(OvFullPath(LogoPath), ResolveUrl(LogoPath, OverviewUrl))
        /\ ov' = [ov EXCEPT !.logo = TRUE]
        /\ pace' = Request(Request(pace, "ov"), "ov")
        /\ UNCHANGED failures
     \/ /\ ~pathExists(OvFullPath(LogoPath))
        /\ failures < MaxFailures
        /\ failures' = failures + 1
        /\ ov' = [ov EXCEPT !.logo = TRUE]
        /\ pace' = Request(Request(pace, "ov"), "ov")
        /\ UNCHANGED disk
  /\ pc' = "ov_write"
  /\ saved' = NoSaved
  /\ UNCHANGED <<exitCode, dirs>>
  /\ OvUnchanged

\* Lines 455-459: the index document is written.
OvWrite ==
  /\ pc = "ov_write"
  /\ disk' = writeFile(IndexPath, FinalHtml(ov))
  /\ ov' = NoFrame
  /\ pc' = "done"
  /\ exitCode' = 0
  /\ saved' = NoSaved
  /\ pace' = pace
  /\ UNCHANGED <<failures, dirs>>
  /\ OvUnchanged

\* Mutant of EndRun: the run ends by writing the root index document.
EndRunWithOverview ==
  /\ pc = "seed"
  /\ seedIdx > NumSeeds
  /\ pc' = "done"
  /\ exitCode' = 0
  /\ disk' = writeFile(IndexPath, FinalHtml([css |-> FALSE, logo |-> FALSE]))
  /\ saved' = NoSaved
  /\ UNCHANGED <<run, mode, rootDoc, failures, dirs, seedIdx, processed,
                 failed, totalSubpagesFetched, totalSubpagesFailed, dl, sp, resStat,
                 inv, iter, hist>>
  /\ UNCHANGED <<ov, tables>>
  /\ UNCHANGED <<pace, crawl, crash, fx>>

\* The loop over the seed entries is over: the summary is printed and the
\* process ends with status 0.
EndRun ==
  /\ pc = "seed"
  /\ seedIdx > NumSeeds
  /\ pc' = "done"
  /\ exitCode' = 0
  /\ saved' = NoSaved
  /\ UNCHANGED <<run, mode, rootDoc, failures, disk, dirs, seedIdx, processed,
                 failed, totalSubpagesFetched, totalSubpagesFailed, dl, sp, resStat,
                 inv, iter, hist>>
  /\ UNCHANGED <<ov, tables>>
  /\ UNCHANGED <<pace, crawl, crash, fx>>

Next ==
  \/ StartRun
  \/ NoCookies
  \/ FetchPageFail
  \/ FetchPageOk
  \/ SkipFetchPage
  \/ ResourceSkip
  \/ ResourceFetchOk
  \/ ResourceFetchFail
  \/ Crash
  \/ SavePageOk
  \/ SavePageThrow
  \/ SubpagesNone
  \/ SubpagesBegin
  \/ SubpageSkip
  \/ SubpageFetchFail
  \/ SubpageFetchOk
  \/ SubpagesReturn
  \/ EndRun
  \/ OvLiveFail
  \/ OvLiveOk
  \/ OvCss
  \/ OvLogo
  \/ OvWrite

Spec == Init /\ [][Next]_vars

(***************************************************************************)
(* The functions on their own: urlToFilename, extractResources and         *)
(* extractSubpageLinks applied to inputs drawn from bounded sets.          *)
(***************************************************************************)
SeqsUpTo(S, n) == UNION {[1..k -> S] : k \in 0..n}

RECURSIVE Flatten(_)
Flatten(parts) == IF Len(parts) = 0 THEN <<>> ELSE Head(parts) \o Flatten(Tail(parts))

PageUrl == Seed(1).url

\* The elements a document is built from: resource references (relative,
\* absolute and in a directory), and anchors (a sub-page, a sub-page in a
\* directory, a fragment, a foreign host, a name that is no report page).
Elements ==
  {El("<img", <<"a">>), El("<img", <<"H", "/", "1", "/", "a">>), El("<link", <<"a">>),
   El("<script", <<"i", "/", "a">>), El("<style", <<"a">>), El("<a", SubS),
   El("<a", SubDirLink), El("<a", <<"#", "top">>),
   El("<a", <<"E", "/", "awstats.", "s", ".html">>), El("<a", <<"awstats.", "s">>)}

Documents == {Flatten(parts) : parts \in SeqsUpTo(Elements, MaxElements)}

\* The query strings: "?" and 1..MaxQueryLen characters.
Queries ==
  {<<"?">> \o q : q \in SeqsUpTo({"1", "2"}, MaxQueryLen) \ {<<>>}}

\* Pathnames by stem and extension.
Stems == {[stem |-> <<"/", "a">>, ext |-> <<>>],
          [stem |-> <<"/", "i", "/", "a">>, ext |-> <<".png">>]}

Inputs ==
  [kind : {"html"}, html : Documents]
    \cup [kind : {"urls"}, path : Stems, queryA : Queries, queryB : Queries]

PureInit ==
  /\ Idle
  /\ rootDoc = DocDup
  /\ fx \in Inputs

sysvars ==
  <<run, mode, pc, exitCode, rootDoc, failures, disk, dirs, seedIdx, processed,
    failed, totalSubpagesFetched, totalSubpagesFailed, dl, sp, ov, resStat, inv,
    saved, tables, iter, hist, pace, crawl, crash>>

UrlOf(path, query) == <<"H">> \o path.stem \o path.ext \o query

ApplyUrlToFilename ==
  /\ fx.kind = "urls"
  /\ fx.queryA # fx.queryB
  /\ fx' = [kind |-> "names", path |-> fx.path, queryA |-> fx.queryA,
            queryB |-> fx.queryB,
            nameA |-> urlToFilename(UrlOf(fx.path, fx.queryA)),
            nameB |-> urlToFilename(UrlOf(fx.path, fx.queryB))]
  /\ UNCHANGED sysvars

ApplyExtractResources ==
  /\ fx.kind = "html"
  /\ fx' = [kind |-> "resources", html |-> fx.html,
            out |-> extractResources(fx.html, PageUrl)]
  /\ UNCHANGED sysvars

ApplyExtractSubpageLinks ==
  /\ fx.kind = "html"
  /\ fx' = [kind |-> "links", html |-> fx.html, out |-> extractSubpageLinks(fx.html)]
  /\ UNCHANGED sysvars

PureNext ==
  \/ ApplyUrlToFilename
  \/ ApplyExtractResources
  \/ ApplyExtractSubpageLinks

PureSpec == PureInit /\ [][PureNext]_vars

(***************************************************************************)
(* Properties.                                                             *)
(***************************************************************************)

RECURSIVE TableOf(_, _)
TableOf(resources, keep) ==
  IF Len(resources) = 0 THEN <<>>
  ELSE LET n == Len(resources)
           before == TableOf(SubSeq(resources, 1, n - 1), keep)
       IN  IF n \in keep THEN Record(before, resources[n]) ELSE before

NotFailed(outcome) == {i \in 1..Len(outcome) : outcome[i] # "fail"}

\* C2: a call of downloadResourcesAndSave for a page whose resources all have
\* a file at their local path issues no request, writes no resource file, and
\* builds the table of the call that first downloaded them: every original
\* reference and every absolute URL mapped to its local path.
C2_Idempotent ==
  (saved.valid /\ saved.allPresent) =>
    /\ saved.req = 0
    /\ saved.wr = 0
    /\ MapKeys(saved.resourceMap) =
         {saved.resources[i].original : i \in 1..Len(saved.resources)}
           \cup {saved.resources[i].url : i \in 1..Len(saved.resources)}
    /\ \A i \in 1..Len(saved.resources) :
         /\ MapGet(saved.resourceMap, saved.resources[i].original)
              = LocalPath(saved.resources[i])
         /\ MapGet(saved.resourceMap, saved.resources[i].url)
              = LocalPath(saved.resources[i])
    /\ (saved.path \in DOMAIN tables
          /\ tables[saved.path].resources = saved.resources)
         => saved.resourceMap = tables[saved.path].resourceMap

\* A later call for a page that an earlier call downloaded, with every
\* resource on disk.
C2_Witness ==
  /\ saved.valid
  /\ saved.allPresent
  /\ Len(saved.resources) > 0
  /\ saved.path \in DOMAIN tables
  /\ tables[saved.path].resources = saved.resources

RECURSIVE Render(_, _)
Render(els, map) ==
  IF Len(els) = 0 THEN <<>>
  ELSE LET el == Head(els)
       IN  El(el.tag, IF MapHas(map, el.ref) THEN MapGet(map, el.ref) ELSE el.ref)
             \o Render(Tail(els), map)

Refs(html) == LET els == ParseHtml(html) IN [i \in 1..Len(els) |-> els[i].ref]

Complete(call) == \A i \in 1..Len(call.outcome) : call.outcome[i] # "fail"

\* C4: with a table that has an entry for every reference of the document,
\* no reference of the rewritten document is a key of the table, and every
\* reference of the fetched document that is a key has become exactly that
\* key's local path.
C4_RewriteComplete ==
  (saved.valid /\ Complete(saved)) =>
    /\ \A i \in 1..Len(Refs(saved.out)) :
         ~MapHas(saved.resourceMap, Refs(saved.out)[i])
    /\ Refs(saved.out) = Refs(Render(ParseHtml(saved.html), saved.resourceMap))

\* C5: a reference whose request failed and that has no entry in the table
\* stands in the written document exactly as in the fetched document.
C5_UnmappedUntouched ==
  saved.valid =>
    \A i \in 1..Len(saved.resources) :
      (saved.outcome[i] = "fail"
         /\ ~MapHas(saved.resourceMap, saved.resources[i].original)) =>
        /\ Len(Refs(saved.out)) = Len(Refs(saved.html))
        /\ \A n \in 1..Len(Refs(saved.html)) :
             Refs(saved.html)[n] = saved.resources[i].original
               => Refs(saved.out)[n] = saved.resources[i].original

\* C6: in a full run, whenever fetchPage has returned for a seed entry, the
\* root page was requested in this run and its file holds the rewritten text
\* of the document just fetched, whether or not the file existed before.
C6_PageAlwaysRefetched ==
  (mode = "full" /\ pc = "subs") =>
    /\ iter.seed = seedIdx
    /\ iter.requested
    /\ iter.written
    /\ saved.valid
    /\ saved.caller = "page"
    /\ saved.html = ServerDoc(CurSeed.url, rootDoc)
    /\ RootPath \in DOMAIN disk
    /\ disk[RootPath] = rewriteHtmlUrls(ServerDoc(CurSeed.url, rootDoc),
                                        saved.resourceMap)

\* fetchPage has returned for a root page whose file existed with other
\* content, while a resource of the page was skipped as present.
C6_Witness ==
  /\ mode = "full"
  /\ pc = "subs"
  /\ iter.existed
  /\ disk[RootPath] # iter.before
  /\ \E i \in 1..Len(saved.outcome) : saved.outcome[i] = "skip"
  /\ saved.req = 0

\* C7: a failed root page or sub-page is fatal to that page only: at every
\* point of the loops each entry or link handled so far was counted exactly
\* once, as processed (fetched) or as failed, and at the end of the run every
\* seed entry was visited and counted.
C7_PageFailureIsolated ==
  /\ (mode # "overview" /\ pc \in {"seed", "res", "subs", "sub"}) =>
       processed + failed = seedIdx - 1
  /\ pc = "sub" => sp.subpagesFetched + sp.subpagesFailed = sp.idx - 1
  /\ (pc = "res" /\ dl.caller = "sub") =>
       sp.subpagesFetched + sp.subpagesFailed = sp.idx - 1
  /\ (mode # "overview" /\ pc = "done" /\ exitCode = 0) =>
       /\ processed + failed = NumSeeds
       /\ hist.visited = 1..NumSeeds

\* The run ended after the first root page failed and every later entry was
\* processed.
C7_Witness ==
  /\ mode = "full"
  /\ pc = "done"
  /\ exitCode = 0
  /\ hist.failedSeeds = {1}
  /\ processed = NumSeeds - 1

\* C8 (as stated): a run in which a resource request failed ends with a
\* non-zero exit status or a non-zero reported failure count.
C8_ResourceFailureReported ==
  (pc = "done" /\ run > 0 /\ hist.resFails > 0) =>
    (exitCode > 0 \/ failed > 0 \/ totalSubpagesFailed > 0)

\* C8 (amended): a run in which a resource request failed still handles
\* every seed entry, and the failed request is only logged: the reported
\* counts are those of the failed root pages and sub-pages alone and the exit
\* status is 0.
C8_ResourceFailureOnlyLogged ==
  (mode # "overview" /\ pc = "done" /\ run > 0 /\ exitCode # 1 /\ crash.run # run) =>
    /\ exitCode = 0
    /\ hist.visited = 1..NumSeeds
    /\ failed = hist.pageFails
    /\ totalSubpagesFailed = hist.subFails
    /\ processed = NumSeeds - hist.pageFails

\* A finished run with a failed resource request, every entry processed and
\* nothing reported as failed.
C8_Witness ==
  /\ pc = "done"
  /\ exitCode = 0
  /\ hist.resFails > 0
  /\ processed = NumSeeds
  /\ failed = 0
  /\ totalSubpagesFailed = 0

InPageDir(path, pageDir) ==
  \/ Len(path) = Len(pageDir) + 1 /\ IsPrefix(pageDir, path)
  \/ Len(path) = Len(pageDir) + 2 /\ IsPrefix(ResourceDir(pageDir), path)

\* C10: every file written while a seed entry is processed lies in that
\* entry's page directory: documents directly in it, resource files directly
\* in its resources/ directory; no sub-page file name has a path separator.
C10_WritesInsidePageDir ==
  /\ \A path \in DOMAIN disk :
       \/ path = IndexPath
       \/ Len(path) = 3 /\ IsPrefix(PathJoin(OUTPUT_DIR, <<"resources">>), path)
       \/ \E i \in 1..NumSeeds : InPageDir(path, PageDir(Seed(i).domain, Seed(i).dateCode))
  /\ saved.valid => Len(SplitSlash(saved.path[Len(saved.path)])) = 1
  /\ sp.active => \A i \in 1..Len(sp.filteredLinks) :
                    Len(SplitSlash(sp.filteredLinks[i])) = 1

\* C11: in the crawl of one root page every sub-page file name is requested
\* at most once, a sub-page whose file was in the page directory when the
\* crawl began is not requested, and the root page's own file name is not
\* requested, also when the root page links to a sub-page several times and
\* to itself.
C11_SubpageFetchedOnce ==
  \A f \in DOMAIN crawl.reqs :
    /\ crawl.reqs[f] <= 1
    /\ f \notin crawl.existing
    /\ f # MainHtmlFilename(Seed(crawl.seed).url)

\* The crawl of a root page that links to a sub-page twice and to itself is
\* over: a sub-page that was on disk was skipped and another one requested.
C11_Witness ==
  /\ pc = "sub"
  /\ sp.idx > Len(sp.filteredLinks)
  /\ Len(SelectLinks(ParseHtml(disk[RootPath]))) > Len(crawl.links)
  /\ \E i \in 1..Len(crawl.links) : crawl.links[i] = MainHtmlFilename(CurSeed.url)
  /\ crawl.existing # {}
  /\ \E f \in DOMAIN crawl.reqs : crawl.reqs[f] = 1

\* C12: the crawl of a root page works on one extraction over the saved root
\* document: the list of the loop is the links of that document without the
\* root's own name and never grows, every sub-page requested is one of these
\* links, and a page linked only from a sub-page is never requested, so the
\* loop ends after at most one request per link.
C12_SingleDiscoveryPass ==
  /\ \A f \in DOMAIN crawl.reqs : \E i \in 1..Len(crawl.links) : crawl.links[i] = f
  /\ SubU \notin DOMAIN crawl.reqs
  /\ sp.active =>
       /\ crawl.links = extractSubpageLinks(disk[RootPath])
       /\ sp.filteredLinks = Without(crawl.links, MainHtmlFilename(CurSeed.url))
       /\ sp.idx <= Len(sp.filteredLinks) + 1

\* The crawl is over, a sub-page that was requested and saved links to a
\* page the root does not link to, and that page was not fetched.
C12_Witness ==
  /\ pc = "sub"
  /\ sp.idx > Len(sp.filteredLinks)
  /\ SubS \in DOMAIN crawl.reqs
  /\ PathJoin(CurPageDir, SubS) \in DOMAIN disk
  /\ \E i \in 1..Len(extractSubpageLinks(disk[PathJoin(CurPageDir, SubS)])) :
       extractSubpageLinks(disk[PathJoin(CurPageDir, SubS)])[i] = SubU
  /\ PathJoin(CurPageDir, SubU) \notin DOMAIN disk

\* C13: after every root page request and every sub-page request, successful
\* or failed, a delay elapses before the next request is sent: the request
\* sent before the latest one, when it was for a root page or a sub-page, was
\* followed by a delay.
C13_DelayAfterEveryPageFetch ==
  pace.prev \in {"page", "sub"} => pace.prevSlept

\* The pairs of references of a call that name different URLs with one local
\* path, the first before the second.
Collisions(call) ==
  {pair \in (1..Len(call.resources)) \X (1..Len(call.resources)) :
     /\ pair[1] < pair[2]
     /\ call.resources[pair[1]].url # call.resources[pair[2]].url
     /\ FullPath(call.pageDir, call.resources[pair[1]])
          = FullPath(call.pageDir, call.resources[pair[2]])}

\* C14 (as stated): when two different URLs of a page map to one local path
\* and both were processed, the file at that path holds the bytes fetched
\* for the URL processed later.
C14_LastWriteWins ==
  saved.valid =>
    \A pair \in Collisions(saved) :
      (saved.outcome[pair[1]] # "fail" /\ saved.outcome[pair[2]] # "fail") =>
        disk[FullPath(saved.pageDir, saved.resources[pair[2]])]
          = saved.resources[pair[2]].url

\* C14 (amended): a collision is first-write-wins.  A local path is written
\* at most once, whatever URLs map to it, and keeps the bytes of the URL it
\* was written for; when two different URLs of a page
\* map to one local path, the later one is requested only if the earlier
\* request failed, otherwise it is skipped as present and its reference is
\* mapped to the file, which keeps the bytes it had: those of the URL that
\* was fetched first.
C14_FirstWriteWins ==
  /\ \A key \in DOMAIN resStat :
       resStat[key].wr > 0 =>
         /\ resStat[key].wr = 1
         /\ disk[FullPath(key[1], [url |-> key[2]])] = key[2]
  /\ saved.valid =>
       \A pair \in Collisions(saved) :
         /\ saved.outcome[pair[2]] = "ok" => saved.outcome[pair[1]] = "fail"
         /\ saved.outcome[pair[1]] # "fail" =>
              /\ saved.outcome[pair[2]] = "skip"
              /\ MapGet(saved.resourceMap, saved.resources[pair[2]].original)
                   = LocalPath(saved.resources[pair[1]])
         /\ saved.outcome[pair[1]] = "ok" =>
              disk[FullPath(saved.pageDir, saved.resources[pair[1]])]
                = saved.resources[pair[1]].url

\* A call fetched and wrote the first of two colliding URLs and skipped the
\* second.
C14_Witness ==
  /\ saved.valid
  /\ \E pair \in Collisions(saved) :
       saved.outcome[pair[1]] = "ok" /\ saved.outcome[pair[2]] = "skip"

\* C15: for two URLs with the same pathname and different non-empty query
\* strings urlToFilename returns different names, each the stem, "_", a
\* fingerprint of 8 characters and the extension.
C15_QueryVariantsDistinct ==
  fx.kind = "names" =>
    LET stem == SlashToUnderscore(Tail(fx.path.stem))
        HasForm(name) ==
          /\ Len(name) = Len(stem) + 1 + 8 + Len(fx.path.ext)
          /\ SubSeq(name, 1, Len(stem) + 1) = stem \o <<"_">>
          /\ EndsWith(name, fx.path.ext)
    IN  /\ fx.nameA # fx.nameB
        /\ HasForm(fx.nameA)
        /\ HasForm(fx.nameB)

KindOfTag(tag) ==
  CASE tag = "<link" -> "css"
    [] tag = "<script" -> "js"
    [] tag = "<img" -> "image"
    [] tag = "<style" -> "image"

\* C16: extractResources returns exactly one entry per distinct pair of kind
\* and absolute URL among the stylesheet, script, image and inline-style
\* references of the document: no pair twice, none omitted.
C16_OneEntryPerReference ==
  fx.kind = "resources" =>
    LET els == ParseHtml(fx.html)
        Wanted == {<<KindOfTag(els[i].tag), ResolveUrl(els[i].ref, PageUrl)>> :
                     i \in {j \in 1..Len(els) : els[j].tag # "<a"}}
        Got(i) == <<fx.out[i].type, fx.out[i].url>>
    IN  /\ \A i, j \in 1..Len(fx.out) : i # j => Got(i) # Got(j)
        /\ {Got(i) : i \in 1..Len(fx.out)} = Wanted

\* C17: extractSubpageLinks returns, without duplicates, exactly the anchor
\* targets that are no fragment, no absolute URL and start with "awstats."
\* and end with ".html"; every one is a bare file name.
C17_LinkFilter ==
  fx.kind = "links" =>
    LET els == ParseHtml(fx.html)
        Wanted == {els[i].ref :
                     i \in {j \in 1..Len(els) :
                              /\ els[j].tag = "<a"
                              /\ els[j].ref[1] # "#"
                              /\ els[j].ref[1] \notin Origins
                              /\ els[j].ref[1] = "awstats."
                              /\ els[j].ref[Len(els[j].ref)] = ".html"}}
    IN  /\ \A i, j \in 1..Len(fx.out) : i # j => fx.out[i] # fx.out[j]
        /\ {fx.out[i] : i \in 1..Len(fx.out)} = Wanted
        /\ \A i \in 1..Len(fx.out) :
             /\ Len(SplitSlash(fx.out[i])) = 1
             /\ fx.out[i][1] \notin Origins

\* C18: once a killed run has left a truncated file at the local path of a
\* resource, the file is never replaced, no URL that maps to that path is
\* requested again, and every later call that meets such a resource skips it
\* as present and records its mapping.
C18_TruncatedFileKept ==
  crash.run > 0 =>
    /\ crash.path \in DOMAIN disk
    /\ disk[crash.path] = Truncated
    /\ \A key \in DOMAIN resStat :
         FullPath(key[1], [url |-> key[2]]) = crash.path
           => resStat[key] = StatOf(crash.stat, key)
    /\ saved.valid =>
         \A i \in 1..Len(saved.resources) :
           FullPath(saved.pageDir, saved.resources[i]) = crash.path =>
             /\ saved.outcome[i] = "skip"
             /\ MapGet(saved.resourceMap, saved.resources[i].original)
                  = LocalPath(saved.resources[i])
             /\ MapGet(saved.resourceMap, saved.resources[i].url)
                  = LocalPath(saved.resources[i])

\* A run after the killed one has processed a page that references the
\* resource whose file is truncated.
C18_Witness ==
  /\ crash.run > 0
  /\ run > crash.run
  /\ saved.valid
  /\ \E i \in 1..Len(saved.resources) :
       FullPath(saved.pageDir, saved.resources[i]) = crash.path

\* C19: in a run with --subpages-only no request goes to the URL of a root
\* page and no root page file is created or changed; a seed entry whose root
\* page file is missing causes no request (only the delay of main follows),
\* adds nothing to the sub-page counts and is counted as processed.
C19_SubpagesOnlyLeavesRoots ==
  (mode = "subpages" /\ (pc # "done" \/ exitCode = 0)) =>
    /\ hist.rootReqs = 0
    /\ RootFiles(disk) = hist.roots
    /\ (pc = "seed" /\ iter.seed > 0 /\ seedIdx = iter.seed + 1 /\ ~iter.existed) =>
         /\ pace = Delay(iter.pace0)
         /\ totalSubpagesFetched = iter.fetched0
         /\ totalSubpagesFailed = iter.failed0
         /\ processed = iter.processed0 + 1

=============================================================================
